---- MODULE Spec2Model ----
(***************************************************************************)
(* Model of etl/crypto_etl.py: the periodic ETL cycle                      *)
(*   fetch (get_crypto_data) -> shape + insert (insert_data) ->            *)
(*   notify (notify_frontend_update) -> sleep, repeated by the __main__    *)
(*   loop.                                                                 *)
(*                                                                         *)
(* Python values are tagged tuples: <<"none">> is None, <<"str", s>> is a  *)
(* str whose characters are the ASCII codes in the sequence s,             *)
(* <<"num", n>> is a JSON number, <<"list", q>> a JSON array.  The         *)
(* external systems (CoinGecko, the PostgreSQL server, the Node.js API)    *)
(* are the environment: each call to them either succeeds or raises the    *)
(* exception class the driver raises.                                      *)
(* Inputs respect the declared JSON types (a list of objects whose symbol  *)
(* and name are text or null and whose numbers are numbers or null).       *)
(* cursor.close() and connection.close() do not raise, as in psycopg2 for  *)
(* client-side cursors; a commit that raises has persisted nothing.        *)
(***************************************************************************)
EXTENDS Integers, Sequences, FiniteSets, TLC

VARIABLES
    pc,                \* position of the single thread of control
    now,               \* wall clock (datetime.now()), one tick per sleep
    fetch_result,      \* outcome of requests.get in this cycle
    crypto_data,       \* main's local crypto_data
    conn,              \* insert_data's local conn: "none" | "open" | "closed"
    cur,               \* insert_data's local cur: "unbound" | "open" | "closed"
    current_timestamp, \* insert_data's local current_timestamp
    records_to_insert, \* insert_data's local records_to_insert
    txn,               \* rows executed in the connection's open transaction
    prices,            \* committed rows of table prices
    prices_before,     \* history: table prices when the cycle started
    exc,               \* exception in flight / that ended the process
    trace              \* history: external calls issued in this cycle, in order

vars == <<pc, now, fetch_result, crypto_data, conn, cur, current_timestamp,
          records_to_insert, txn, prices, prices_before, exc, trace>>

\* ---------------------------------------------------------------- bounds
MaxLen == 2       \* longest list the API returns in the model
MaxCycles == 2    \* number of cycles the loop is followed for

\* ---------------------------------------------------------------- values
None == <<"none">>
Str(s) == <<"str", s>>
Num(n) == <<"num", n>>

List(q) == <<"list", q>>

\* Python truthiness of a JSON value: None, "", 0 and [] are falsy.
Truthy(v) ==
    CASE v[1] = "none" -> FALSE
      [] v[1] = "str"  -> v[2] # <<>>
      [] v[1] = "num"  -> v[2] # 0
      [] v[1] = "list" -> v[2] # <<>>

\* str.lower() on ASCII text: 'A'..'Z' (65..90) map to 'a'..'z'.
Lower(s) == [i \in 1..Len(s) |-> IF s[i] \in 65..90 THEN s[i] + 32 ELSE s[i]]

\* One object of the API's JSON array, as crypto.get(key) sees it
\* (an absent key and a null value both read as None).
Entry(sym, nm, price, cap, vol) ==
    [symbol |-> sym, name |-> nm, current_price |-> price,
     market_cap |-> cap, total_volume |-> vol]

\* The entries the model's API can return: complete ones in upper, lower and
\* mixed case, with a zero price and null market_cap/total_volume, and ones
\* lacking symbol, name or price (null or empty).
RawEntries ==
    { Entry(Str(<<66, 84>>), Str(<<66, 105>>), Num(3000), Num(5), Num(7)),
      Entry(Str(<<101, 84>>), Str(<<69>>), Num(0), None, None),
      Entry(Str(<<88, 89>>), Str(<<70>>), None, Num(5), Num(7)),
      Entry(None, Str(<<70>>), Num(1), Num(5), None),
      Entry(Str(<<>>), Str(<<70>>), Num(1), None, Num(7)),
      Entry(Str(<<97>>), None, Num(1), Num(5), Num(7)) }

RECURSIVE SeqsUpTo(_, _)
SeqsUpTo(S, n) ==
    IF n = 0 THEN { <<>> }
    ELSE LET shorter == SeqsUpTo(S, n - 1)
         IN  shorter \cup { Append(s, x) : s \in { t \in shorter : Len(t) = n - 1 }, x \in S }

\* Bodies a 200 response can carry: JSON arrays of at most MaxLen entries.
ResponseBodies == SeqsUpTo(RawEntries, MaxLen)

\* ---------------------------------------------------------------- shaper
\* datetime.now().isoformat(timespec='milliseconds'): the text of instant t.
isoformat(t) == <<"ts", t>>

\* Variant of IsComplete: the price tested for truthiness like the others
\* ("... and current_price"), which drops a price of 0.
IsComplete_truthy_price(crypto) ==
    /\ Truthy(crypto.symbol)
    /\ Truthy(crypto.name)
    /\ Truthy(crypto.current_price)

\* Variant of IsComplete: the price not tested at all.
IsComplete_without_price(crypto) ==
    /\ Truthy(crypto.symbol)
    /\ Truthy(crypto.name)

\* line 95: symbol and name and current_price is not None
IsComplete(crypto) ==
    /\ Truthy(crypto.symbol)
    /\ Truthy(crypto.name)
    /\ crypto.current_price # None

\* lines 97-104: the tuple appended for one complete entry
Record(crypto, ts) ==
    [symbol |-> Str(Lower(crypto.symbol[2])), name |-> crypto.name,
     current_price |-> crypto.current_price, market_cap |-> crypto.market_cap,
     total_volume |-> crypto.total_volume, timestamp |-> ts]

\* Variant of ShapeRecords: the clock read inside the loop, once per entry.
RECURSIVE ShapeRecords_clock_per_entry(_, _)
ShapeRecords_clock_per_entry(data, ts) ==
    IF data = <<>> THEN <<>>
    ELSE LET crypto == Head(data)
             rest == ShapeRecords_clock_per_entry(Tail(data), isoformat(ts[2] + 1))
         IN  IF Truthy(crypto.symbol) /\ Truthy(crypto.name)
                   /\ crypto.current_price # <<"none">>
             THEN <<[symbol |-> <<"str", Lower(crypto.symbol[2])>>,
                     name |-> crypto.name,
                     current_price |-> crypto.current_price,
                     market_cap |-> crypto.market_cap,
                     total_volume |-> crypto.total_volume,
                     timestamp |-> ts]>> \o rest
             ELSE rest

\* lines 86-106: the loop building records_to_insert, in input order
RECURSIVE ShapeRecords(_, _)
ShapeRecords(data, ts) ==
    IF data = <<>> THEN <<>>
    ELSE LET crypto == Head(data)
             rest == ShapeRecords(Tail(data), ts)
         IN  IF IsComplete(crypto) THEN <<Record(crypto, ts)>> \o rest ELSE rest

\* ---------------------------------------------------------------- driver
Init ==
    /\ pc = "main"
    /\ now = 1
    /\ fetch_result = "pending"
    /\ crypto_data = None
    /\ conn = "none"
    /\ cur = "unbound"
    /\ current_timestamp = None
    /\ records_to_insert = <<>>
    /\ txn = <<>>
    /\ prices = <<>>
    /\ prices_before = <<>>
    /\ exc = "none"
    /\ trace = <<>>

\* The values the state takes.
TypeOK ==
    /\ pc \in {"main", "insert_data", "cursor", "shape", "executemany", "commit",
               "except", "finally", "notify", "sleep", "exit"}
    /\ now \in 1..MaxCycles
    /\ fetch_result \in {"pending", "ok", "timeout", "http_error", "transport_error"}
    /\ crypto_data[1] \in {"none", "list"}
    /\ conn \in {"none", "open", "closed"}
    /\ cur \in {"unbound", "open", "closed"}
    /\ current_timestamp[1] \in {"none", "ts"}
    /\ Len(records_to_insert) <= MaxLen
    /\ Len(txn) <= Len(records_to_insert)
    /\ Len(prices) <= MaxLen * MaxCycles
    /\ Len(prices_before) <= Len(prices)
    /\ exc \in {"none", "SystemExit", "psycopg2.Error", "UnboundLocalError"}
    /\ Len(trace) <= 8

\* get_crypto_data (lines 40-52): the decoded body on a 200 response, None
\* on Timeout and on any other RequestException (HTTP status, transport).
get_crypto_data(outcome, body) ==
    IF outcome = "ok" THEN List(body) ELSE None

FetchOutcomes == {"ok", "timeout", "http_error", "transport_error"}

\* Variant of main_fetch: main without its "if crypto_data:" test.
main_fetch_unguarded ==
    /\ pc = "main"
    /\ \E outcome \in FetchOutcomes, body \in ResponseBodies :
          /\ fetch_result' = outcome
          /\ crypto_data' = get_crypto_data(outcome, body)
    /\ pc' = "insert_data"
    /\ trace' = Append(trace, "GET")
    /\ UNCHANGED <<now, conn, cur, current_timestamp, records_to_insert, txn,
                   prices, prices_before, exc>>

\* main, lines 140-143 and 146-148: fetch, then either enter insert_data or
\* report "no new data", return, and let the loop sleep.
main_fetch ==
    /\ pc = "main"
    /\ \E outcome \in FetchOutcomes, body \in ResponseBodies :
          /\ fetch_result' = outcome
          /\ crypto_data' = get_crypto_data(outcome, body)
          /\ pc' = IF Truthy(crypto_data') THEN "insert_data" ELSE "sleep"
    /\ trace' = Append(trace, "GET")
    /\ UNCHANGED <<now, conn, cur, current_timestamp, records_to_insert, txn,
                   prices, prices_before, exc>>

\* insert_data lines 72-78 with connect_db (lines 54-67): falsy data returns
\* at once; otherwise psycopg2.connect either returns a connection or raises
\* OperationalError, which connect_db turns into sys.exit(1).  SystemExit is
\* not a psycopg2.Error, conn is still None in the finally block, and nothing
\* up the stack catches it: the process ends.
connect_db ==
    /\ pc = "insert_data"
    /\ IF ~Truthy(crypto_data)
       THEN /\ pc' = "notify"
            /\ UNCHANGED <<conn, exc, trace>>
       ELSE \E ok \in BOOLEAN :
              /\ trace' = Append(trace, "connect")
              /\ IF ok
                 THEN /\ conn' = "open"
                      /\ pc' = "cursor"
                      /\ exc' = exc
                 ELSE /\ conn' = conn
                      /\ pc' = "exit"
                      /\ exc' = "SystemExit"
    /\ UNCHANGED <<now, fetch_result, crypto_data, cur, current_timestamp,
                   records_to_insert, txn, prices, prices_before>>

\* line 79: conn.cursor() returns a cursor or raises a psycopg2.Error, which
\* the except clause of line 120 handles.
conn_cursor ==
    /\ pc = "cursor"
    /\ \E ok \in BOOLEAN :
          IF ok THEN cur' = "open" /\ pc' = "shape"
                ELSE cur' = cur /\ pc' = "except"
    /\ trace' = Append(trace, "cursor")
    /\ UNCHANGED <<now, fetch_result, crypto_data, conn, current_timestamp,
                   records_to_insert, txn, prices, prices_before, exc>>

\* lines 82-108 and 117-118: one timestamp, the shaping loop, and the branch
\* on whether any record is left.
shape ==
    /\ pc = "shape"
    /\ current_timestamp' = isoformat(now)
    /\ records_to_insert' = ShapeRecords(crypto_data[2], current_timestamp')
    /\ pc' = IF records_to_insert' # <<>> THEN "executemany" ELSE "finally"
    /\ UNCHANGED <<now, fetch_result, crypto_data, conn, cur, txn, prices,
                   prices_before, exc, trace>>

\* Variant of executemany: the connection in autocommit mode, every
\* accepted record durable at once.
executemany_autocommit ==
    /\ pc = "executemany"
    /\ \E done \in 0..Len(records_to_insert) :
          /\ prices' = prices \o SubSeq(records_to_insert, 1, done)
          /\ pc' = IF done = Len(records_to_insert) THEN "commit" ELSE "except"
    /\ trace' = Append(trace, "executemany")
    /\ UNCHANGED <<now, fetch_result, crypto_data, conn, cur, current_timestamp,
                   records_to_insert, txn, prices_before, exc>>

\* line 114: cur.executemany runs the INSERT once per record inside the
\* connection's transaction; it raises a psycopg2.Error at the first record
\* the server rejects, the records before it staying in the transaction.
executemany ==
    /\ pc = "executemany"
    /\ \E done \in 0..Len(records_to_insert) :
          /\ txn' = txn \o SubSeq(records_to_insert, 1, done)
          /\ pc' = IF done = Len(records_to_insert) THEN "commit" ELSE "except"
    /\ trace' = Append(trace, "executemany")
    /\ UNCHANGED <<now, fetch_result, crypto_data, conn, cur, current_timestamp,
                   records_to_insert, prices, prices_before, exc>>

\* lines 115-116: conn.commit() makes the transaction's rows durable, or
\* raises a psycopg2.Error and persists nothing.
commit ==
    /\ pc = "commit"
    /\ \E ok \in BOOLEAN :
          IF ok THEN /\ prices' = prices \o txn
                     /\ txn' = <<>>
                     /\ trace' = Append(trace, "commit")
                     /\ pc' = "finally"
                ELSE /\ UNCHANGED <<prices, txn>>
                     /\ trace' = Append(trace, "commit_failed")
                     /\ pc' = "except"
    /\ UNCHANGED <<now, fetch_result, crypto_data, conn, cur, current_timestamp,
                   records_to_insert, prices_before, exc>>

\* lines 120-123: the handler of psycopg2.Error rolls the transaction back;
\* a rollback that itself raises leaves the handler with that exception
\* in flight.
except_rollback ==
    /\ pc = "except"
    /\ \E ok \in BOOLEAN :
          IF ok THEN txn' = <<>> /\ exc' = exc
                ELSE txn' = txn /\ exc' = "psycopg2.Error"
    /\ trace' = Append(trace, "rollback")
    /\ pc' = "finally"
    /\ UNCHANGED <<now, fetch_result, crypto_data, conn, cur, current_timestamp,
                   records_to_insert, prices, prices_before>>

\* lines 124-127: with conn set, cur.close() then conn.close().  When
\* conn.cursor() raised, cur was never bound: cur.close() raises
\* UnboundLocalError, conn.close() is not reached and the exception leaves
\* insert_data, main and the loop.  Closing the connection discards what
\* its transaction had not committed.  An exception in flight is re-raised
\* after the block.
finally_close ==
    /\ pc = "finally"
    /\ IF cur = "unbound"
       THEN /\ exc' = "UnboundLocalError"
            /\ pc' = "exit"
            /\ UNCHANGED <<conn, cur, txn, trace>>
       ELSE /\ cur' = "closed"
            /\ conn' = "closed"
            /\ txn' = <<>>
            /\ trace' = Append(trace, "close")
            /\ exc' = exc
            /\ pc' = IF exc = "none" THEN "notify" ELSE "exit"
    /\ UNCHANGED <<now, fetch_result, crypto_data, current_timestamp,
                   records_to_insert, prices, prices_before>>

\* Variant of notify_frontend_update: one POST per inserted record.
notify_per_record ==
    /\ pc = "notify"
    /\ trace' = trace \o [i \in 1..Len(records_to_insert) |-> "POST"]
    /\ pc' = "sleep"
    /\ UNCHANGED <<now, fetch_result, crypto_data, conn, cur, current_timestamp,
                   records_to_insert, txn, prices, prices_before, exc>>

\* notify_frontend_update (lines 129-136) and main line 148: one POST; a
\* RequestException is reported and swallowed.
notify_frontend_update ==
    /\ pc = "notify"
    /\ trace' = Append(trace, "POST")
    /\ pc' = "sleep"
    /\ UNCHANGED <<now, fetch_result, crypto_data, conn, cur, current_timestamp,
                   records_to_insert, txn, prices, prices_before, exc>>

\* lines 154-157: time.sleep(300) returns and the loop calls main() again,
\* whose locals start afresh.
sleep ==
    /\ pc = "sleep"
    /\ now < MaxCycles
    /\ now' = now + 1
    /\ pc' = "main"
    /\ fetch_result' = "pending"
    /\ crypto_data' = None
    /\ conn' = "none"
    /\ cur' = "unbound"
    /\ current_timestamp' = None
    /\ records_to_insert' = <<>>
    /\ prices_before' = prices
    /\ trace' = <<>>
    /\ UNCHANGED <<txn, prices, exc>>

Next ==
    \/ main_fetch
    \/ connect_db
    \/ conn_cursor
    \/ shape
    \/ executemany
    \/ commit
    \/ except_rollback
    \/ finally_close
    \/ notify_frontend_update
    \/ sleep

Spec == Init /\ [][Next]_vars

\* ================================================================ properties
Count(ev) == Cardinality({ i \in DOMAIN trace : trace[i] = ev })
Has(ev) == Count(ev) > 0
IndexOf(ev) == CHOOSE i \in DOMAIN trace : trace[i] = ev

\* The cycle has left insert_data (or skipped it) or the process has ended.
CycleOver == pc \in {"notify", "sleep", "exit"}

\* The insert statement or its commit raised and the handler rolled back.
InsertFailed == Has("executemany") /\ Has("rollback")

\* An entry that has a symbol, a name and a non-null price.
Qualifies(e) ==
    /\ e.symbol[1] = "str" /\ e.symbol[2] # <<>>
    /\ e.name[1] = "str" /\ e.name[2] # <<>>
    /\ e.current_price[1] # "none"

Kept(data) == { i \in DOMAIN data : Qualifies(data[i]) }
Rank(data, i) == Cardinality({ j \in Kept(data) : j <= i })

\* out is text in lower case that equals text up to the case of its letters.
IsLowerCaseOf(out, text) ==
    /\ Len(out) = Len(text)
    /\ \A k \in DOMAIN out :
          /\ out[k] \notin 65..90
          /\ \/ out[k] = text[k]
             \/ text[k] \in 65..90 /\ out[k] = text[k] + 32

\* C1: once the loop runs, no failure of fetch, connection, insert or notify
\* ends the process: the driver only ever alternates between running a cycle
\* and sleeping.
C1_LoopNeverTerminates == pc # "exit"

\* C2: a cycle whose insert failed with a database error and was rolled back
\* issues no notify POST.
C2_NoNotifyAfterFailedInsert == InsertFailed => ~Has("POST")

\* C3: a cycle whose insert of N >= 1 records committed goes on to the
\* Notifier and issues exactly one POST, after the commit, whatever N is.
C3_NotifyOnceAfterCommit ==
    Has("commit") =>
        /\ Len(records_to_insert) >= 1
        /\ pc \in {"finally", "notify", "sleep"}
        /\ Count("POST") = (IF pc = "sleep" THEN 1 ELSE 0)
        /\ Has("POST") => IndexOf("commit") < IndexOf("POST")

C3_Witness ==
    /\ pc = "sleep"
    /\ Has("commit")
    /\ Count("POST") = 1
    /\ Len(records_to_insert) = 2

\* C4: the table only grows, by one whole batch per committed cycle: it is the
\* table at the start of the cycle followed by the whole shaped batch once the
\* single commit succeeded and by nothing otherwise; after a failed insert the
\* rollback leaves no row of the batch behind.
C4_AppendOnlyAtomic ==
    /\ Count("commit") <= 1
    /\ prices = (IF Has("commit") THEN prices_before \o records_to_insert
                                  ELSE prices_before)
    /\ (CycleOver /\ InsertFailed) => (prices = prices_before /\ txn = <<>>)

C4_Witness ==
    /\ pc = "sleep"
    /\ InsertFailed
    /\ ~Has("commit_failed")
    /\ Len(records_to_insert) = 2
    /\ prices_before # <<>>
    /\ prices = prices_before

\* C5: a failed fetch (timeout, HTTP status, transport) gives the no-data
\* signal without raising, and the cycle goes straight to sleeping: no
\* database connection, no insert, no notify, table untouched.
C5_FetchFailureSkipsCycle ==
    fetch_result \in {"timeout", "http_error", "transport_error"} =>
        /\ crypto_data = None
        /\ pc = "sleep"
        /\ exc = "none"
        /\ trace = <<"GET">>
        /\ conn = "none"
        /\ prices = prices_before

C5_Witness ==
    /\ fetch_result = "timeout"
    /\ pc = "sleep"
    /\ prices # <<>>

\* C6: whichever way insert_data is left (success, nothing valid, failure of
\* cursor creation, of the insert, of commit or rollback), the connection it
\* acquired has been closed.
C6_ConnectionReleased == CycleOver => conn # "open"

\* C7: the shaped batch is the subsequence of the entries that have a symbol,
\* a name and a non-null price, in input order, with the symbol in lower case
\* and name, price, market_cap and total_volume as they came; its length is
\* the input length minus the number of skipped entries.
C7_ShapedBatch ==
    current_timestamp # None =>
        LET data == crypto_data[2]
            out == records_to_insert
            skipped == DOMAIN data \ Kept(data)
        IN  /\ Len(out) = Len(data) - Cardinality(skipped)
            /\ \A i \in Kept(data) :
                  LET r == out[Rank(data, i)]
                  IN  /\ r.symbol[1] = "str"
                      /\ IsLowerCaseOf(r.symbol[2], data[i].symbol[2])
                      /\ r.name = data[i].name
                      /\ r.current_price = data[i].current_price
                      /\ r.market_cap = data[i].market_cap
                      /\ r.total_volume = data[i].total_volume

C7_Witness ==
    /\ current_timestamp # None
    /\ Len(crypto_data[2]) = 2
    /\ ~Qualifies(crypto_data[2][1])
    /\ crypto_data[2][2].symbol = Str(<<66, 84>>)
    /\ Len(records_to_insert) = 1
    /\ records_to_insert[1].symbol = Str(<<98, 116>>)

\* C8: every row of the table has a symbol, a name, a price and a timestamp,
\* none of them null: an entry lacking one never reaches the table.
C8_RowsComplete ==
    \A i \in DOMAIN prices :
        /\ prices[i].symbol[1] = "str" /\ prices[i].symbol[2] # <<>>
        /\ prices[i].name[1] = "str" /\ prices[i].name[2] # <<>>
        /\ prices[i].current_price[1] = "num"
        /\ prices[i].timestamp[1] = "ts"

C8_Witness ==
    /\ Has("commit")
    /\ Len(prices) > Len(prices_before)
    /\ \E i \in DOMAIN crypto_data[2] : crypto_data[2][i].current_price = None

\* C9: when the fetched list has no valid record (it is empty, or every entry
\* is incomplete) no insert statement and no commit are executed, the table
\* is unchanged, and the cycle completes and goes to sleep.
C9_ZeroValidCompletes ==
    (fetch_result = "ok" /\ Kept(crypto_data[2]) = {}) =>
        /\ ~Has("executemany")
        /\ ~Has("commit")
        /\ prices = prices_before
        /\ pc # "exit"

\* C10: the records shaped in one cycle, and the rows that cycle inserts,
\* all carry the one timestamp captured for the batch.
C10_SharedTimestamp ==
    /\ \A i \in DOMAIN records_to_insert :
          records_to_insert[i].timestamp = current_timestamp
    /\ \A i \in DOMAIN txn : txn[i].timestamp = current_timestamp
    /\ \A i \in (Len(prices_before) + 1)..Len(prices) :
          prices[i].timestamp = current_timestamp

C10_Witness ==
    /\ Has("commit")
    /\ Len(prices) = Len(prices_before) + 2
    /\ prices_before # <<>>

====
